---- MODULE Spec2Model ----
(***************************************************************************)
(* Model of the collaborative canvas server (server/server.js): the        *)
(* RoomManager, the DrawingStateManager and the socket.io event handlers   *)
(* registered for each connection.                                         *)
(***************************************************************************)
EXTENDS Integers, Sequences, FiniteSets, TLC

\* ---------------------------------------------------------------- bounds
MaxSockets == 2      \* connections accepted during a run (socket ids 1..MaxSockets)
MaxOps     == 2      \* longest operations array a draw may produce
MaxClock   == 1      \* Date.now() ranges over 0..MaxClock
MaxJoins   == 4      \* connections accepted when only joins and leaves are followed
MaxMembers == 1      \* user ids handed to the managers when both are exercised with any room
MaxUsers   == 3      \* user ids handed to the RoomManager when it is exercised alone
MaxIndex   == 20     \* member indices for which the colour is computed directly
MaxCommits == 2      \* log-mutating events followed when the sockets' queues are modelled

SocketIds == 1..(IF MaxJoins > MaxSockets THEN MaxJoins ELSE MaxSockets)
Strokes   == {"p1"}
Positions == {"xy"}

\* ------------------------------------------------------------- JS values
Undefined == [tag |-> "undefined"]

\* payloads a client can put in a 'draw' message
DrawData ==
    {Undefined, [tag |-> "object", pathData |-> Undefined]}
    \cup {[tag |-> "object",
           pathData |-> [tag |-> "object", points |-> Undefined, stroke |-> "p1"]]}
    \cup {[tag |-> "object",
           pathData |-> [tag |-> "object", points |-> [tag |-> "array"], stroke |-> p]]
          : p \in Strokes}

\* payloads a client can put in a 'cursor-move' message
CursorData == {Undefined} \cup {[tag |-> "object", position |-> p] : p \in Positions}

WellFormedDraw(data) ==
    /\ data.tag = "object"
    /\ data.pathData.tag = "object"
    /\ data.pathData.points.tag = "array"

Min(a, b) == IF a < b THEN a ELSE b
Max(a, b) == IF a > b THEN a ELSE b

\* Array.prototype.slice(0, end)
slice(arr, end) ==
    LET e == IF end < 0 THEN Max(Len(arr) + end, 0) ELSE Min(end, Len(arr))
    IN  SubSeq(arr, 1, e)

\* Array.prototype.indexOf (0-based, -1 when absent)
indexOf(arr, x) ==
    IF \E i \in 1..Len(arr) : arr[i] = x
    THEN (CHOOSE i \in 1..Len(arr) : arr[i] = x /\ \A j \in 1..(i - 1) : arr[j] # x) - 1
    ELSE -1

\* the JavaScript remainder: the sign follows the dividend
JsRem(a, n) == IF a >= 0 THEN a % n ELSE -((-a) % n)

\* ------------------------------------------------------------ server.js
roomId == "default"

USER_COLORS == <<"#FF6B6B", "#4ECDC4", "#45B7D1", "#FFA07A", "#98D8C8", "#F7DC6F", "#BB8FCE">>

\* the colour taken from the member count instead of the index
getUserColorByCount(index) ==
    LET i == JsRem(index + 1, Len(USER_COLORS))
    IN  IF i >= 0 THEN USER_COLORS[i + 1] ELSE "undefined"

getUserColor(index) ==
    LET i == JsRem(index, Len(USER_COLORS))
    IN  IF i >= 0 THEN USER_COLORS[i + 1] ELSE "undefined"

\* ---------------------------------------------------------- RoomManager
\* rooms: a Map roomId -> Set of user ids; a Set iterates in insertion
\* order, so it is a sequence without repetitions.
Put(map, key, value) == [k \in DOMAIN map \cup {key} |-> IF k = key THEN value ELSE map[k]]
Delete(map, key) == [k \in DOMAIN map \ {key} |-> map[k]]

\* Set.add as a plain push
SetAddPush(set, x) == Append(set, x)

\* Set.delete filling the hole with the last element
SetDeleteSwap(set, x) ==
    LET p == indexOf(set, x) + 1
    IN  IF p = 0
        THEN set
        ELSE [i \in 1..(Len(set) - 1) |-> IF i = p THEN set[Len(set)] ELSE set[i]]

SetAdd(set, x) == IF \E i \in 1..Len(set) : set[i] = x THEN set ELSE Append(set, x)
SetDelete(set, x) == SelectSeq(set, LAMBDA y : y # x)

addUser(rooms, room, userId) ==
    LET created == IF room \in DOMAIN rooms THEN rooms ELSE Put(rooms, room, <<>>)
    IN  Put(created, room, SetAdd(created[room], userId))

removeUser(rooms, room, userId) ==
    IF room \in DOMAIN rooms
    THEN LET deleted == Put(rooms, room, SetDelete(rooms[room], userId))
         IN  IF Len(deleted[room]) = 0 THEN Delete(deleted, room) ELSE deleted
    ELSE rooms

getUsers(rooms, room) == IF room \in DOMAIN rooms THEN rooms[room] ELSE <<>>

getUserCount(rooms, room) == IF room \in DOMAIN rooms THEN Len(rooms[room]) ELSE 0

getUserIndex(rooms, room, userId) == indexOf(getUsers(rooms, room), userId)

\* --------------------------------------------------- DrawingStateManager
\* rooms: a Map roomId -> {operations, currentIndex}.  Every method that
\* touches a room returns the Map after the call and, where the code
\* returns one, the result.
initRoom(rooms, room) ==
    IF room \in DOMAIN rooms
    THEN rooms
    ELSE Put(rooms, room, [operations |-> <<>>, currentIndex |-> -1])

\* getState returning the whole array, hidden operations included
getStateUnsliced(rooms, room) ==
    LET inited == initRoom(rooms, room)
        r == inited[room]
    IN  [rooms  |-> inited,
         result |-> [operations |-> r.operations, currentIndex |-> r.currentIndex]]

getState(rooms, room) ==
    LET inited == initRoom(rooms, room)
        r == inited[room]
    IN  [rooms  |-> inited,
         result |-> [operations   |-> slice(r.operations, r.currentIndex + 1),
                     currentIndex |-> r.currentIndex]]

\* addOperation pushing onto the whole array, the redo tail kept
addOperationNoTruncate(rooms, room, operation) ==
    LET inited == initRoom(rooms, room)
        r == inited[room]
        pushed == Append(r.operations, operation)
    IN  [rooms  |-> Put(inited, room, [operations |-> pushed, currentIndex |-> Len(pushed) - 1]),
         result |-> TRUE]

addOperation(rooms, room, operation) ==
    LET inited == initRoom(rooms, room)
        r == inited[room]
        pushed == Append(slice(r.operations, r.currentIndex + 1), operation)
    IN  [rooms  |-> Put(inited, room, [operations |-> pushed, currentIndex |-> Len(pushed) - 1]),
         result |-> TRUE]

\* undo without the currentIndex >= 0 test
undoUnguarded(rooms, room) ==
    LET inited == initRoom(rooms, room)
        r == inited[room]
    IN  [rooms  |-> Put(inited, room, [r EXCEPT !.currentIndex = r.currentIndex - 1]),
         result |-> [success |-> TRUE]]

\* undo removing the operation it hides
undoPop(rooms, room) ==
    LET inited == initRoom(rooms, room)
        r == inited[room]
    IN  IF r.currentIndex >= 0
        THEN [rooms  |-> Put(inited, room, [operations   |-> slice(r.operations, r.currentIndex),
                                            currentIndex |-> r.currentIndex - 1]),
              result |-> [success |-> TRUE]]
        ELSE [rooms |-> inited, result |-> [success |-> FALSE]]

\* undo reporting success at the boundary too
undoReportsSuccess(rooms, room) ==
    LET inited == initRoom(rooms, room)
        r == inited[room]
    IN  IF r.currentIndex >= 0
        THEN [rooms  |-> Put(inited, room, [r EXCEPT !.currentIndex = r.currentIndex - 1]),
              result |-> [success |-> TRUE]]
        ELSE [rooms |-> inited, result |-> [success |-> TRUE]]

undo(rooms, room) ==
    LET inited == initRoom(rooms, room)
        r == inited[room]
    IN  IF r.currentIndex >= 0
        THEN [rooms  |-> Put(inited, room, [r EXCEPT !.currentIndex = r.currentIndex - 1]),
              result |-> [success |-> TRUE]]
        ELSE [rooms |-> inited, result |-> [success |-> FALSE]]

\* redo showing everything that was undone at once
redoToEnd(rooms, room) ==
    LET inited == initRoom(rooms, room)
        r == inited[room]
    IN  IF r.currentIndex < Len(r.operations) - 1
        THEN [rooms  |-> Put(inited, room, [r EXCEPT !.currentIndex = Len(r.operations) - 1]),
              result |-> [success |-> TRUE]]
        ELSE [rooms |-> inited, result |-> [success |-> FALSE]]

\* redo testing currentIndex <= length - 1
redoOffByOne(rooms, room) ==
    LET inited == initRoom(rooms, room)
        r == inited[room]
    IN  IF r.currentIndex <= Len(r.operations) - 1
        THEN [rooms  |-> Put(inited, room, [r EXCEPT !.currentIndex = r.currentIndex + 1]),
              result |-> [success |-> TRUE]]
        ELSE [rooms |-> inited, result |-> [success |-> FALSE]]

redo(rooms, room) ==
    LET inited == initRoom(rooms, room)
        r == inited[room]
    IN  IF r.currentIndex < Len(r.operations) - 1
        THEN [rooms  |-> Put(inited, room, [r EXCEPT !.currentIndex = r.currentIndex + 1]),
              result |-> [success |-> TRUE]]
        ELSE [rooms |-> inited, result |-> [success |-> FALSE]]

\* clear resetting the cursor and keeping the array
clearKeepsOperations(rooms, room) ==
    LET inited == initRoom(rooms, room)
    IN  Put(inited, room, [inited[room] EXCEPT !.currentIndex = -1])

clear(rooms, room) ==
    Put(initRoom(rooms, room), room, [operations |-> <<>>, currentIndex |-> -1])

\* clearRoom as this.rooms.clear(): every room's log goes
clearRoomAll(rooms, room) == [k \in {} |-> {}]

\* clearRoom deleting nothing
clearRoomKeeps(rooms, room) == rooms

clearRoom(rooms, room) == Delete(rooms, room)

\* ------------------------------------------------------------------ state
VARIABLES
    roomManager,    \* RoomManager.rooms
    stateManager,   \* DrawingStateManager.rooms
    connected,      \* sockets that joined roomId in socket.io and have not disconnected
    nextSocket,     \* the id the next connection gets
    now,            \* Date.now()
    running,        \* FALSE once a handler has thrown: the exception is uncaught
    lastEvent,      \* the event handled in the last step, with what its handler found
    emitted,        \* per socket, the messages that handler sent to it, in order
    channel,        \* per socket, the messages sent to it and not yet delivered, oldest first
    commits,        \* how many log-mutating events the server has applied
    client,         \* per socket, what the browser at the other end holds
    told,           \* per socket, the colour the server last told it for each user
    pending         \* per socket, the handler of its event that has started and not returned

server == <<roomManager, stateManager, connected, nextSocket, now, running, lastEvent, emitted>>
net == <<channel, commits, client, told>>
vars == <<server, net, pending>>

\* no handler of the socket's events is between its first and last statement
Idle == [pc |-> "idle"]

EmptyMap == [k \in {} |-> {}]
NoMessages == [s \in SocketIds |-> <<>>]

\* socket.to(roomId) reaching the sender as well
socketToAll(sockets, userId) == sockets

\* socket.to(roomId): the sockets in the room other than the sender
socketTo(sockets, userId) == sockets \ {userId}

\* io.to(roomId): every socket in the room
ioTo(sockets) == sockets

\* .emit(event, payload) to the chosen sockets
emit(out, recipients, msg) ==
    [s \in SocketIds |-> IF s \in recipients THEN Append(out[s], msg) ELSE out[s]]

\* the log of roomId as stored, or the fresh one initRoom would create
Log == initRoom(stateManager, roomId)[roomId]

\* type, socket, data: the event and its sender; success: what undo or redo
\* returned; preIndex, preLen: the log the handler found
Event(type, socket, data, success) ==
    [type |-> type, socket |-> socket, data |-> data, success |-> success,
     preIndex |-> Log.currentIndex, preLen |-> Len(Log.operations)]

\* a browser that has not received its init-state
NoClient == [operations |-> <<>>, currentIndex |-> -1, lastSeq |-> 0]

Init ==
    /\ roomManager = EmptyMap
    /\ stateManager = EmptyMap
    /\ connected = {}
    /\ nextSocket = 1
    /\ now = 0
    /\ running = TRUE
    /\ lastEvent = Event("none", 0, Undefined, TRUE)
    /\ emitted = NoMessages
    /\ channel = NoMessages
    /\ commits = 0
    /\ client = [s \in SocketIds |-> NoClient]
    /\ told = [s \in SocketIds |-> [u \in SocketIds |-> "none"]]
    /\ pending = [s \in SocketIds |-> Idle]

\* time passes between two events
Tick ==
    /\ running
    /\ now < MaxClock
    /\ now' = now + 1
    /\ lastEvent' = Event("none", 0, Undefined, TRUE)
    /\ emitted' = NoMessages
    /\ UNCHANGED <<roomManager, stateManager, connected, nextSocket, running>>

rosterEntry(users, idx, userId) ==
    [userId |-> users[idx + 1],
     color  |-> getUserColor(idx),
     name   |-> IF users[idx + 1] = userId THEN <<"You">> ELSE <<"User", idx + 1>>]

\* the connection handler announcing the joiner to the whole room, the
\* joiner included, before it sends the snapshot
OnConnectionAnnounceFirst(limit) ==
    /\ running
    /\ nextSocket <= limit
    /\ LET userId    == nextSocket
           joined    == connected \cup {userId}
           members   == addUser(roomManager, roomId, userId)
           userIndex == getUserIndex(members, roomId, userId)
           userColor == getUserColor(userIndex)
           current   == getState(stateManager, roomId)
           users     == getUsers(members, roomId)
           initState == [event      |-> "init-state",
                         operations |-> current.result.operations,
                         users      |-> [i \in 1..Len(users) |-> rosterEntry(users, i - 1, userId)]]
           userJoined == [event |-> "user-joined", userId |-> userId, color |-> userColor,
                          name |-> <<"User", userIndex + 1>>]
       IN  /\ connected' = joined
           /\ roomManager' = members
           /\ stateManager' = current.rooms
           /\ emitted' = emit(emit(NoMessages, ioTo(joined), userJoined), {userId}, initState)
           /\ lastEvent' = Event("connection", userId, Undefined, TRUE)
    /\ nextSocket' = nextSocket + 1
    /\ UNCHANGED <<now, running>>

\* io.on('connection'), for the first `limit` connections
OnConnectionUpTo(limit) ==
    /\ running
    /\ nextSocket <= limit
    /\ LET userId    == nextSocket
           joined    == connected \cup {userId}
           members   == addUser(roomManager, roomId, userId)
           userIndex == getUserIndex(members, roomId, userId)
           userColor == getUserColor(userIndex)
           current   == getState(stateManager, roomId)
           users     == getUsers(members, roomId)
           initState == [event      |-> "init-state",
                         operations |-> current.result.operations,
                         users      |-> [i \in 1..Len(users) |-> rosterEntry(users, i - 1, userId)]]
           userJoined == [event |-> "user-joined", userId |-> userId, color |-> userColor,
                          name |-> <<"User", userIndex + 1>>]
       IN  /\ connected' = joined
           /\ roomManager' = members
           /\ stateManager' = current.rooms
           /\ emitted' = emit(emit(NoMessages, {userId}, initState), socketTo(joined, userId), userJoined)
           /\ lastEvent' = Event("connection", userId, Undefined, TRUE)
    /\ nextSocket' = nextSocket + 1
    /\ UNCHANGED <<now, running>>

OnConnection == OnConnectionUpTo(MaxSockets)

\* socket.on('draw'): data undefined throws when pathData is read (line 78),
\* before anything is stored; pathData or pathData.points undefined throws
\* when points.length is read (line 91), after the store and the broadcast.
\* Date.now() is read for the id and again for the timestamp.
OnDraw(userId, data) ==
    /\ running
    /\ userId \in connected
    /\ Log.currentIndex + 2 <= MaxOps
    /\ lastEvent' = Event("draw", userId, data, TRUE)
    /\ running' = WellFormedDraw(data)
    /\ IF data.tag = "undefined"
       THEN UNCHANGED <<stateManager, now>> /\ emitted' = NoMessages
       ELSE \E stamp \in now..Min(now + 1, MaxClock) :
              LET operation == [id        |-> <<userId, now>>,
                                type      |-> "draw",
                                userId    |-> userId,
                                data      |-> data.pathData,
                                timestamp |-> stamp]
                  drawMsg == [event |-> "draw", userId |-> userId, pathData |-> data.pathData,
                              timestamp |-> operation.timestamp]
              IN  /\ stateManager' = addOperation(stateManager, roomId, operation).rooms
                  /\ emitted' = emit(NoMessages, socketTo(connected, userId), drawMsg)
                  /\ now' = stamp
    /\ UNCHANGED <<roomManager, connected, nextSocket>>

\* the cursor-move handler storing the position as an operation
OnCursorMoveLogged(userId, data) ==
    /\ running
    /\ userId \in connected
    /\ lastEvent' = Event("cursor-move", userId, data, TRUE)
    /\ running' = (data.tag # "undefined")
    /\ stateManager' = IF data.tag = "undefined" \/ Log.currentIndex + 2 > MaxOps
                       THEN stateManager
                       ELSE addOperation(stateManager, roomId,
                                         [id |-> <<userId, now>>, type |-> "cursor-move",
                                          userId |-> userId, data |-> data.position,
                                          timestamp |-> now]).rooms
    /\ emitted' = IF data.tag = "undefined"
                  THEN NoMessages
                  ELSE emit(NoMessages, socketTo(connected, userId),
                            [event |-> "cursor-move", userId |-> userId,
                             position |-> data.position])
    /\ UNCHANGED <<roomManager, connected, nextSocket, now>>

\* socket.on('cursor-move')
OnCursorMove(userId, data) ==
    /\ running
    /\ userId \in connected
    /\ lastEvent' = Event("cursor-move", userId, data, TRUE)
    /\ running' = (data.tag # "undefined")
    /\ emitted' = IF data.tag = "undefined"
                  THEN NoMessages
                  ELSE emit(NoMessages, socketTo(connected, userId),
                            [event |-> "cursor-move", userId |-> userId,
                             position |-> data.position])
    /\ UNCHANGED <<roomManager, stateManager, connected, nextSocket, now>>

\* socket.on('undo')
OnUndo(userId) ==
    /\ running
    /\ userId \in connected
    /\ LET result == undo(stateManager, roomId)
       IN  /\ stateManager' = result.rooms
           /\ emitted' = IF result.result.success
                         THEN emit(NoMessages, ioTo(connected),
                                   [event |-> "undo", userId |-> userId, timestamp |-> now])
                         ELSE NoMessages
           /\ lastEvent' = Event("undo", userId, Undefined, result.result.success)
    /\ UNCHANGED <<roomManager, connected, nextSocket, now, running>>

\* socket.on('redo')
OnRedo(userId) ==
    /\ running
    /\ userId \in connected
    /\ LET result == redo(stateManager, roomId)
       IN  /\ stateManager' = result.rooms
           /\ emitted' = IF result.result.success
                         THEN emit(NoMessages, ioTo(connected),
                                   [event |-> "redo", userId |-> userId, timestamp |-> now])
                         ELSE NoMessages
           /\ lastEvent' = Event("redo", userId, Undefined, result.result.success)
    /\ UNCHANGED <<roomManager, connected, nextSocket, now, running>>

\* the clear handler broadcasting only when there was something to clear
OnClearIfNonEmpty(userId) ==
    /\ running
    /\ userId \in connected
    /\ stateManager' = clear(stateManager, roomId)
    /\ emitted' = IF Len(Log.operations) > 0
                  THEN emit(NoMessages, ioTo(connected), [event |-> "clear", userId |-> userId])
                  ELSE NoMessages
    /\ lastEvent' = Event("clear", userId, Undefined, TRUE)
    /\ UNCHANGED <<roomManager, connected, nextSocket, now, running>>

\* socket.on('clear')
OnClear(userId) ==
    /\ running
    /\ userId \in connected
    /\ stateManager' = clear(stateManager, roomId)
    /\ emitted' = emit(NoMessages, ioTo(connected), [event |-> "clear", userId |-> userId])
    /\ lastEvent' = Event("clear", userId, Undefined, TRUE)
    /\ UNCHANGED <<roomManager, connected, nextSocket, now, running>>

\* the disconnect handler cleaning the room up whoever is left in it
LeaveClearsAlways(userId) ==
    /\ running
    /\ LET left    == connected \ {userId}
           members == removeUser(roomManager, roomId, userId)
       IN  /\ connected' = left
           /\ roomManager' = members
           /\ emitted' = emit(NoMessages, socketTo(left, userId), [event |-> "user-left", userId |-> userId])
           /\ stateManager' = clearRoom(stateManager, roomId)
    /\ lastEvent' = Event("disconnect", userId, Undefined, TRUE)
    /\ UNCHANGED <<nextSocket, now, running>>

\* the body of the disconnect handler: socket.io has taken the socket out
\* of its rooms before the handler runs.
Leave(userId) ==
    /\ running
    /\ LET left    == connected \ {userId}
           members == removeUser(roomManager, roomId, userId)
       IN  /\ connected' = left
           /\ roomManager' = members
           /\ emitted' = emit(NoMessages, socketTo(left, userId), [event |-> "user-left", userId |-> userId])
           /\ stateManager' = IF getUserCount(members, roomId) = 0
                              THEN clearRoom(stateManager, roomId)
                              ELSE stateManager
    /\ lastEvent' = Event("disconnect", userId, Undefined, TRUE)
    /\ UNCHANGED <<nextSocket, now, running>>

\* socket.on('disconnect'): fired once, for a socket that was connected
OnDisconnect(userId) ==
    /\ userId \in connected
    /\ Leave(userId)

Draw == \E userId \in SocketIds, data \in DrawData : OnDraw(userId, data)
CursorMove == \E userId \in SocketIds, data \in CursorData : OnCursorMove(userId, data)
Undo == \E userId \in SocketIds : OnUndo(userId)
Redo == \E userId \in SocketIds : OnRedo(userId)
Clear == \E userId \in SocketIds : OnClear(userId)
Disconnect == \E userId \in SocketIds : OnDisconnect(userId)

\* the server alone: what it sends is not followed any further
Next ==
    \/ Tick /\ UNCHANGED <<net, pending>>
    \/ OnConnection /\ UNCHANGED <<net, pending>>
    \/ Draw /\ UNCHANGED <<net, pending>>
    \/ CursorMove /\ UNCHANGED <<net, pending>>
    \/ Undo /\ UNCHANGED <<net, pending>>
    \/ Redo /\ UNCHANGED <<net, pending>>
    \/ Clear /\ UNCHANGED <<net, pending>>
    \/ Disconnect /\ UNCHANGED <<net, pending>>

Spec == Init /\ [][Next]_vars

\* -------------------------------------------------- RoomManager alone
\* The RoomManager called directly, with any room and any user id, as its
\* exported interface allows.
RoomIds == {roomId, "studio"}
UserIds == 1..MaxUsers

Call(type, room, userId) ==
    [type |-> type, room |-> room, socket |-> userId,
     wasMember |-> getUserIndex(roomManager, room, userId) >= 0,
     preIndex |-> getUserIndex(roomManager, room, userId)]

AddUserCall(room, userId) ==
    /\ roomManager' = addUser(roomManager, room, userId)
    /\ lastEvent' = Call("addUser", room, userId)
    /\ UNCHANGED <<stateManager, connected, nextSocket, now, running, emitted, net, pending>>

RemoveUserCall(room, userId) ==
    /\ roomManager' = removeUser(roomManager, room, userId)
    /\ lastEvent' = Call("removeUser", room, userId)
    /\ UNCHANGED <<stateManager, connected, nextSocket, now, running, emitted, net, pending>>

NextRooms ==
    \/ \E room \in RoomIds, userId \in UserIds : AddUserCall(room, userId)
    \/ \E room \in RoomIds, userId \in UserIds : RemoveUserCall(room, userId)

SpecRooms == Init /\ [][NextRooms]_vars

\* ------------------------------------------ both managers, any room
\* The exported methods of RoomManager and DrawingStateManager called
\* directly with any room id. The caller gives every operation an id that
\* names the room it appends it to and the place it will take there.
Method(type, room, userId) == [type |-> type, room |-> room, socket |-> userId]

MethodFrame == UNCHANGED <<connected, nextSocket, now, running, emitted, net, pending>>

RoomOperation(room) ==
    [id        |-> <<room, initRoom(stateManager, room)[room].currentIndex + 1>>,
     type      |-> "draw",
     userId    |-> 0,
     data      |-> [tag |-> "object", points |-> [tag |-> "array"], stroke |-> "p1"],
     timestamp |-> now]

AddOperationCall(room) ==
    /\ initRoom(stateManager, room)[room].currentIndex + 2 <= MaxOps
    /\ stateManager' = addOperation(stateManager, room, RoomOperation(room)).rooms
    /\ lastEvent' = Method("addOperation", room, 0)
    /\ UNCHANGED roomManager /\ MethodFrame

GetStateCall(room) ==
    /\ stateManager' = getState(stateManager, room).rooms
    /\ lastEvent' = Method("getState", room, 0)
    /\ UNCHANGED roomManager /\ MethodFrame

UndoCall(room) ==
    /\ stateManager' = undo(stateManager, room).rooms
    /\ lastEvent' = Method("undo", room, 0)
    /\ UNCHANGED roomManager /\ MethodFrame

RedoCall(room) ==
    /\ stateManager' = redo(stateManager, room).rooms
    /\ lastEvent' = Method("redo", room, 0)
    /\ UNCHANGED roomManager /\ MethodFrame

ClearCall(room) ==
    /\ stateManager' = clear(stateManager, room)
    /\ lastEvent' = Method("clear", room, 0)
    /\ UNCHANGED roomManager /\ MethodFrame

ClearRoomCall(room) ==
    /\ stateManager' = clearRoom(stateManager, room)
    /\ lastEvent' = Method("clearRoom", room, 0)
    /\ UNCHANGED roomManager /\ MethodFrame

JoinCall(room, userId) ==
    /\ roomManager' = addUser(roomManager, room, userId)
    /\ lastEvent' = Method("addUser", room, userId)
    /\ UNCHANGED stateManager /\ MethodFrame

LeaveCall(room, userId) ==
    /\ roomManager' = removeUser(roomManager, room, userId)
    /\ lastEvent' = Method("removeUser", room, userId)
    /\ UNCHANGED stateManager /\ MethodFrame

NextIsolation ==
    \/ \E room \in RoomIds : AddOperationCall(room)
    \/ \E room \in RoomIds : GetStateCall(room)
    \/ \E room \in RoomIds : UndoCall(room)
    \/ \E room \in RoomIds : RedoCall(room)
    \/ \E room \in RoomIds : ClearCall(room)
    \/ \E room \in RoomIds : ClearRoomCall(room)
    \/ \E room \in RoomIds, userId \in 1..MaxMembers : JoinCall(room, userId)
    \/ \E room \in RoomIds, userId \in 1..MaxMembers : LeaveCall(room, userId)

SpecIsolation == Init /\ [][NextIsolation]_vars

\* ------------------------------------------------- joins and leaves
\* what socket s has been told about user u once message m is added to
\* what it knew: init-state gives the whole roster, user-joined one entry
Learn(known, m) ==
    CASE m.event = "init-state" ->
           [u \in SocketIds |->
              IF \E i \in 1..Len(m.users) : m.users[i].userId = u
              THEN m.users[CHOOSE i \in 1..Len(m.users) : m.users[i].userId = u].color
              ELSE "none"]
      [] m.event = "user-joined" -> [known EXCEPT ![m.userId] = m.color]
      [] OTHER -> known

\* the handler's messages reach the sockets they were sent to
Tell ==
    told' = [s \in SocketIds |->
               IF emitted'[s] = <<>> THEN told[s] ELSE Learn(told[s], emitted'[s][1])]

NextMembers ==
    \/ OnConnectionUpTo(MaxJoins) /\ Tell /\ UNCHANGED <<channel, commits, client, pending>>
    \/ Disconnect /\ Tell /\ UNCHANGED <<channel, commits, client, pending>>

SpecMembers == Init /\ [][NextMembers]_vars

\* ------------------------------------------------- leaves without a join
\* the disconnect handler run for a socket that is not in the room: its join
\* never completed, or its leave was handled before
StrayLeave == \E userId \in SocketIds : userId \notin connected /\ Leave(userId)

NextLeave ==
    \/ OnConnection /\ UNCHANGED <<net, pending>>
    \/ Draw /\ UNCHANGED <<net, pending>>
    \/ Undo /\ UNCHANGED <<net, pending>>
    \/ Redo /\ UNCHANGED <<net, pending>>
    \/ Clear /\ UNCHANGED <<net, pending>>
    \/ Disconnect /\ UNCHANGED <<net, pending>>
    \/ StrayLeave /\ UNCHANGED <<net, pending>>

SpecLeave == Init /\ [][NextLeave]_vars

\* ------------------------------------------- handlers, statement by statement
\* addOperation and clear write operations and currentIndex in separate
\* statements. Here each of those statements is a step of its own, so that
\* what keeps another handler from running between them is the event loop
\* alone: every handler is a synchronous callback (no await, no timer, no
\* callback between its statements), and node runs a callback to its return
\* before it takes the next event.
CallStackIgnored == TRUE

\* the event loop takes the next event when no handler is running
CallStackEmpty == \A s \in SocketIds : pending[s].pc = "idle"

\* addOperation, lines 238-240: initRoom and the slice that drops the redo tail
addOperationSlice(rooms, room) ==
    LET inited == initRoom(rooms, room)
        r == inited[room]
    IN  Put(inited, room, [r EXCEPT !.operations = slice(r.operations, r.currentIndex + 1)])

\* addOperation, line 241: the push
addOperationPush(rooms, room, operation) ==
    LET inited == initRoom(rooms, room)
        r == inited[room]
    IN  Put(inited, room, [r EXCEPT !.operations = Append(r.operations, operation)])

\* addOperation, line 242: the cursor moves to the last element
addOperationIndex(rooms, room) ==
    LET inited == initRoom(rooms, room)
        r == inited[room]
    IN  Put(inited, room, [r EXCEPT !.currentIndex = Len(r.operations) - 1])

\* clear, lines 267-269: initRoom and the new empty array
clearOperations(rooms, room) ==
    LET inited == initRoom(rooms, room)
    IN  Put(inited, room, [inited[room] EXCEPT !.operations = <<>>])

\* clear, line 270: the cursor is reset
clearIndex(rooms, room) ==
    LET inited == initRoom(rooms, room)
    IN  Put(inited, room, [inited[room] EXCEPT !.currentIndex = -1])

\* a statement of a handler that is not its last: nothing is sent yet
Statement(userId) ==
    /\ lastEvent' = Event("statement", userId, Undefined, TRUE)
    /\ emitted' = NoMessages
    /\ UNCHANGED <<roomManager, connected, nextSocket, now, running, net>>

\* the draw handler is entered with a well-formed payload: the operation is
\* built and addOperation runs up to its slice
DrawBegin(userId, data) ==
    /\ CallStackEmpty
    /\ running
    /\ userId \in connected
    /\ pending[userId] = Idle
    /\ WellFormedDraw(data)
    /\ Log.currentIndex + 2 <= MaxOps
    /\ stateManager' = addOperationSlice(stateManager, roomId)
    /\ pending' = [pending EXCEPT ![userId] =
                      [pc        |-> "push",
                       data      |-> data,
                       before    |-> stateManager,
                       operation |-> [id        |-> <<userId, now>>,
                                      type      |-> "draw",
                                      userId    |-> userId,
                                      data      |-> data.pathData,
                                      timestamp |-> now]]]
    /\ Statement(userId)

DrawPush(userId) ==
    /\ pending[userId].pc = "push"
    /\ stateManager' = addOperationPush(stateManager, roomId, pending[userId].operation)
    /\ pending' = [pending EXCEPT ![userId].pc = "index"]
    /\ Statement(userId)

\* addOperation returns and the handler broadcasts the stroke
DrawEnd(userId) ==
    /\ pending[userId].pc = "index"
    /\ stateManager' = addOperationIndex(stateManager, roomId)
    /\ pending' = [pending EXCEPT ![userId] = Idle]
    /\ lastEvent' = Event("draw", userId, pending[userId].data, TRUE)
    /\ emitted' = emit(NoMessages, socketTo(connected, userId),
                       [event |-> "draw", userId |-> userId,
                        pathData |-> pending[userId].operation.data,
                        timestamp |-> pending[userId].operation.timestamp])
    /\ UNCHANGED <<roomManager, connected, nextSocket, now, running, net>>

\* the clear handler is entered: clear runs up to the new empty array
ClearBegin(userId) ==
    /\ CallStackEmpty
    /\ running
    /\ userId \in connected
    /\ pending[userId] = Idle
    /\ stateManager' = clearOperations(stateManager, roomId)
    /\ pending' = [pending EXCEPT ![userId] = [pc |-> "reset", before |-> stateManager]]
    /\ Statement(userId)

\* clear returns and the handler broadcasts it
ClearEnd(userId) ==
    /\ pending[userId].pc = "reset"
    /\ stateManager' = clearIndex(stateManager, roomId)
    /\ pending' = [pending EXCEPT ![userId] = Idle]
    /\ lastEvent' = Event("clear", userId, Undefined, TRUE)
    /\ emitted' = emit(NoMessages, ioTo(connected), [event |-> "clear", userId |-> userId])
    /\ UNCHANGED <<roomManager, connected, nextSocket, now, running, net>>

\* the handlers that read or write the log or the member list in one
\* statement are entered and return in one step
NextSteps ==
    \/ CallStackEmpty /\ OnConnection /\ UNCHANGED <<net, pending>>
    \/ CallStackEmpty /\ Undo /\ UNCHANGED <<net, pending>>
    \/ CallStackEmpty /\ Redo /\ UNCHANGED <<net, pending>>
    \/ CallStackEmpty /\ Disconnect /\ UNCHANGED <<net, pending>>
    \/ \E userId \in SocketIds, data \in DrawData : DrawBegin(userId, data)
    \/ \E userId \in SocketIds : DrawPush(userId)
    \/ \E userId \in SocketIds : DrawEnd(userId)
    \/ \E userId \in SocketIds : ClearBegin(userId)
    \/ \E userId \in SocketIds : ClearEnd(userId)

SpecSteps == Init /\ [][NextSteps]_vars

\* ------------------------------------------------- server and browsers
LogEvents == {"draw", "undo", "redo", "clear"}

\* whether the handler of event e reached a call that writes the log
Mutating(e) ==
    \/ e.type = "draw" /\ e.data.tag = "object"
    \/ e.type \in {"undo", "redo"} /\ e.success
    \/ e.type = "clear"

\* the messages of one handler, stamped with the number of log mutations
\* applied when emit was called
Stamped(msgs, seq) == [i \in 1..Len(msgs) |-> [msg |-> msgs[i], seq |-> seq]]

\* emit putting the new messages in front of those waiting
TransmitInFront ==
    /\ commits' = IF Mutating(lastEvent') THEN commits + 1 ELSE commits
    /\ commits' <= MaxCommits
    /\ channel' = [s \in SocketIds |->
                      IF s \in connected'
                      THEN Stamped(emitted'[s], commits') \o channel[s]
                      ELSE <<>>]

\* what the handler emitted joins each socket's queue, behind what is
\* already waiting there; the queue of a socket that is gone is dropped.
\* In every handler the emit call follows the call that writes the log.
Transmit ==
    /\ commits' = IF Mutating(lastEvent') THEN commits + 1 ELSE commits
    /\ commits' <= MaxCommits
    /\ channel' = [s \in SocketIds |->
                      IF s \in connected'
                      THEN channel[s] \o Stamped(emitted'[s], commits')
                      ELSE <<>>]

\* how a browser keeps an operation: its author and its stroke
Shown(userId, pathData) == [userId |-> userId, data |-> pathData]

\* the browser adds an operation to its local history
ClientPush(c, shown) ==
    LET pushed == Append(slice(c.operations, c.currentIndex + 1), shown)
    IN  [c EXCEPT !.operations = pushed, !.currentIndex = Len(pushed) - 1]

\* the browser applies one message from the server
ClientReceive(c, m, seq) ==
    LET d == [c EXCEPT !.lastSeq = IF m.event \in LogEvents THEN seq ELSE c.lastSeq]
    IN  CASE m.event = "init-state" ->
               [d EXCEPT !.operations = [i \in 1..Len(m.operations) |->
                                           Shown(m.operations[i].userId, m.operations[i].data)],
                         !.currentIndex = Len(m.operations) - 1]
          [] m.event = "draw" -> ClientPush(d, Shown(m.userId, m.pathData))
          [] m.event = "undo" ->
               IF d.currentIndex >= 0 THEN [d EXCEPT !.currentIndex = d.currentIndex - 1] ELSE d
          [] m.event = "redo" ->
               IF d.currentIndex < Len(d.operations) - 1
               THEN [d EXCEPT !.currentIndex = d.currentIndex + 1] ELSE d
          [] m.event = "clear" -> [d EXCEPT !.operations = <<>>, !.currentIndex = -1]
          [] OTHER -> d

\* the oldest message waiting for socket s reaches its browser
Deliver(s) ==
    /\ running
    /\ s \in connected
    /\ channel[s] # <<>>
    /\ channel' = [channel EXCEPT ![s] = Tail(channel[s])]
    /\ client' = [client EXCEPT ![s] = ClientReceive(client[s], Head(channel[s]).msg,
                                                     Head(channel[s]).seq)]
    /\ UNCHANGED <<server, commits, told, pending>>

\* the browser draws the stroke locally when it sends it
DrawNet ==
    \E userId \in SocketIds, data \in DrawData :
        /\ OnDraw(userId, data)
        /\ client' = IF WellFormedDraw(data)
                     THEN [client EXCEPT ![userId] = ClientPush(client[userId],
                                                                Shown(userId, data.pathData))]
                     ELSE client

\* the server and the queue of each socket; the transport delivers a
\* socket's queue in order, oldest first
NextOrder ==
    \/ Tick /\ UNCHANGED <<net, pending>>
    \/ OnConnection /\ Transmit /\ UNCHANGED <<client, told, pending>>
    \/ Draw /\ Transmit /\ UNCHANGED <<client, told, pending>>
    \/ Undo /\ Transmit /\ UNCHANGED <<client, told, pending>>
    \/ Redo /\ Transmit /\ UNCHANGED <<client, told, pending>>
    \/ Clear /\ Transmit /\ UNCHANGED <<client, told, pending>>
    \/ Disconnect /\ Transmit /\ UNCHANGED <<client, told, pending>>

SpecOrder == Init /\ [][NextOrder]_vars

\* the browser of socket s has received its init-state
Initialised(s) == \A i \in 1..Len(channel[s]) : channel[s][i].msg.event # "init-state"

\* the event just handled came from a browser that had its init-state
FromInitialised == Initialised(lastEvent'.socket)

\* the server, the queues and the browsers that drain them; a browser sends
\* drawing events once it has its init-state
NextNet ==
    \/ Tick /\ UNCHANGED <<net, pending>>
    \/ OnConnection /\ Transmit /\ UNCHANGED <<client, told, pending>>
    \/ DrawNet /\ FromInitialised /\ Transmit /\ UNCHANGED <<told, pending>>
    \/ Undo /\ FromInitialised /\ Transmit /\ UNCHANGED <<client, told, pending>>
    \/ Redo /\ FromInitialised /\ Transmit /\ UNCHANGED <<client, told, pending>>
    \/ Clear /\ FromInitialised /\ Transmit /\ UNCHANGED <<client, told, pending>>
    \/ Disconnect /\ Transmit /\ UNCHANGED <<client, told, pending>>
    \/ \E s \in SocketIds : Deliver(s)

SpecNet == Init /\ [][NextNet]_vars

\* ------------------------------------------------------------ properties
Visible(log) == SubSeq(log.operations, 1, log.currentIndex + 1)
EmptyLog == [operations |-> <<>>, currentIndex |-> -1]

\* C1: in every reachable state, every stored room log has
\* -1 <= currentIndex <= len(operations) - 1.
C1_CursorInRange ==
    \A r \in DOMAIN stateManager :
        /\ -1 <= stateManager[r].currentIndex
        /\ stateManager[r].currentIndex <= Len(stateManager[r].operations) - 1

\* an undo has moved the cursor strictly inside the array
C1_Witness ==
    /\ lastEvent.type = "undo"
    /\ lastEvent.success
    /\ Log.currentIndex = 0
    /\ Len(Log.operations) = 2

\* C2: a draw step that reaches addOperation leaves operations equal to the
\* old visible prefix followed by the new operation and currentIndex on the
\* new last element, whatever the log was, so that a redo on the resulting
\* log fails and changes nothing.
C2_AppendTruncates ==
    [][(lastEvent'.type = "draw" /\ lastEvent'.data.tag = "object") =>
         LET op == [id        |-> <<lastEvent'.socket, now>>,
                    type      |-> "draw",
                    userId    |-> lastEvent'.socket,
                    data      |-> lastEvent'.data.pathData,
                    timestamp |-> now']
         IN  /\ Log'.operations = Append(Visible(Log), op)
             /\ Log'.currentIndex = Len(Log'.operations) - 1
             /\ ~redo(stateManager', roomId).result.success
             /\ redo(stateManager', roomId).rooms = stateManager']_vars

\* append A; append B; undo; append C has left [A, C] with the cursor on C
C2_Witness ==
    /\ lastEvent.type = "draw"
    /\ lastEvent.preIndex = 0
    /\ lastEvent.preLen = 2
    /\ Len(Log.operations) = 2
    /\ Log.currentIndex = 1

\* C3: an undo at currentIndex = -1 and a redo at currentIndex = length - 1
\* report success = false and leave operations and currentIndex as they were.
C3_BoundaryNoOp ==
    [][/\ (lastEvent'.type = "undo" /\ Log.currentIndex = -1) =>
            (~lastEvent'.success /\ Log' = Log)
       /\ (lastEvent'.type = "redo" /\ Log.currentIndex = Len(Log.operations) - 1) =>
            (~lastEvent'.success /\ Log' = Log)]_vars

\* a redo was refused on a log that holds operations, all of them visible
C3_Witness ==
    /\ lastEvent.type = "redo"
    /\ ~lastEvent.success
    /\ Len(Log.operations) = 2
    /\ Log.currentIndex = 1

\* C4: an undo at currentIndex >= 0, from any connected socket, succeeds,
\* lowers currentIndex by exactly one and leaves the operations array as it was.
C4_UndoMovesCursorOnly ==
    [][(lastEvent'.type = "undo" /\ Log.currentIndex >= 0) =>
         /\ lastEvent'.success
         /\ Log'.currentIndex = Log.currentIndex - 1
         /\ Log'.operations = Log.operations]_vars

\* a socket has undone an operation another socket drew; it is still stored
C4_Witness ==
    /\ lastEvent.type = "undo"
    /\ lastEvent.success
    /\ Len(Log.operations) >= Log.currentIndex + 2
    /\ Log.operations[Log.currentIndex + 2].userId # lastEvent.socket

\* C5: after a clear, whatever the log was, operations is empty and
\* currentIndex is -1, and both undo and redo on that log report failure.
C5_ClearResets ==
    lastEvent.type = "clear" =>
        /\ Log = EmptyLog
        /\ roomId \in DOMAIN stateManager
        /\ ~undo(stateManager, roomId).result.success
        /\ ~redo(stateManager, roomId).result.success

\* a clear has emptied a log that held a visible operation and a redo tail
C5_Witness ==
    /\ lastEvent.type = "clear"
    /\ lastEvent.preLen = 2
    /\ lastEvent.preIndex = 0
    /\ Log = EmptyLog

\* the messages with the given event name among msgs, and among those the
\* last handler sent to s
Of(msgs, event) == SelectSeq(msgs, LAMBDA m : m.event = event)
Sent(s, event) == Of(emitted[s], event)

\* C6: on every connection, the operations of the init-state sent to the
\* joining socket are exactly operations[0..currentIndex] of the room's log
\* at that moment: as many as currentIndex + 1, none from the redo tail.
C6_SnapshotIsVisiblePrefix ==
    [][lastEvent'.type = "connection" =>
         LET joiner == lastEvent'.socket
         IN  /\ Len(Of(emitted'[joiner], "init-state")) = 1
             /\ Of(emitted'[joiner], "init-state")[1].operations = Visible(Log)
             /\ Len(Of(emitted'[joiner], "init-state")[1].operations) = Log.currentIndex + 1
             /\ Log' = Log]_vars

\* a socket has joined while the log held one visible operation and a redo tail
C6_Witness ==
    /\ lastEvent.type = "connection"
    /\ Len(Log.operations) = 2
    /\ Log.currentIndex = 0
    /\ Len(emitted[lastEvent.socket][1].operations) = 1

\* C7: the room's log is stored exactly while the room has members: the
\* disconnect that empties the room deletes it, a disconnect that leaves a
\* member behind leaves operations and currentIndex as they were, and a
\* connection into a room without members gets an init-state with no operations.
C7_RoomReclaimedWhenEmpty ==
    [][/\ (roomId \in DOMAIN stateManager') <=> (getUserCount(roomManager', roomId) > 0)
       /\ lastEvent'.type = "disconnect" =>
            IF getUserCount(roomManager', roomId) = 0
            THEN roomId \notin DOMAIN stateManager'
            ELSE stateManager' = stateManager
       /\ (lastEvent'.type = "connection" /\ getUserCount(roomManager, roomId) = 0) =>
            Of(emitted'[lastEvent'.socket], "init-state")[1].operations = <<>>]_vars

\* the last member has left a room whose log held operations
C7_Witness ==
    /\ lastEvent.type = "disconnect"
    /\ lastEvent.preLen > 0
    /\ connected = {}
    /\ roomId \notin DOMAIN stateManager

\* C8: an undo (redo) message goes out if and only if the undo (redo)
\* succeeded, which it does exactly away from the boundary; it then goes once
\* to every socket in the room, the requester included, and a request at the
\* boundary sends nothing to anyone.
C8_BroadcastIffSuccess ==
    /\ lastEvent.type \in {"undo", "redo"} =>
         /\ lastEvent.success <=>
              IF lastEvent.type = "undo"
              THEN lastEvent.preIndex >= 0
              ELSE lastEvent.preIndex < lastEvent.preLen - 1
         /\ \A s \in SocketIds :
              emitted[s] = IF lastEvent.success /\ s \in connected
                           THEN <<[event |-> lastEvent.type, userId |-> lastEvent.socket,
                                   timestamp |-> now]>>
                           ELSE <<>>
    /\ \A s \in SocketIds, e \in {"undo", "redo"} :
         Sent(s, e) # <<>> => (lastEvent.type = e /\ lastEvent.success)

\* an undo by one of two connected sockets has succeeded and reached both
C8_Witness ==
    /\ lastEvent.type = "undo"
    /\ lastEvent.success
    /\ connected = {1, 2}
    /\ Sent(1, "undo") # <<>>
    /\ Sent(2, "undo") # <<>>

\* C9: a well-formed draw from socket s appends exactly one operation to the
\* log and sends exactly one draw message to each socket that is in the room
\* at that moment other than s, none to s and none to anyone else; no other
\* event sends a draw message, so a socket that joins later gets an
\* init-state and no draw message.
C9_DrawToOthersOnly ==
    /\ (lastEvent.type = "draw" /\ WellFormedDraw(lastEvent.data)) =>
         /\ Len(Log.operations) = lastEvent.preIndex + 2
         /\ Log.currentIndex = lastEvent.preIndex + 1
         /\ Log.operations[Len(Log.operations)].userId = lastEvent.socket
         /\ Log.operations[Len(Log.operations)].data = lastEvent.data.pathData
         /\ \A s \in SocketIds :
              emitted[s] = IF s \in connected /\ s # lastEvent.socket
                           THEN <<[event     |-> "draw",
                                   userId    |-> lastEvent.socket,
                                   pathData  |-> lastEvent.data.pathData,
                                   timestamp |-> Log.operations[Len(Log.operations)].timestamp]>>
                           ELSE <<>>
    /\ \A s \in SocketIds :
         Sent(s, "draw") # <<>> =>
            (lastEvent.type = "draw" /\ s # lastEvent.socket /\ s \in connected)
    /\ lastEvent.type = "connection" =>
         (Len(emitted[lastEvent.socket]) = 1 /\ Len(Sent(lastEvent.socket, "init-state")) = 1)

\* one of two connected sockets has drawn: the other got the stroke, it did not
C9_Witness ==
    /\ lastEvent.type = "draw"
    /\ WellFormedDraw(lastEvent.data)
    /\ connected = {1, 2}
    /\ Len(Sent(3 - lastEvent.socket, "draw")) = 1
    /\ emitted[lastEvent.socket] = <<>>

\* C10: after every clear, whatever the log was, exactly one clear message
\* has been sent to every socket in the room, the sender included.
C10_ClearToAll ==
    lastEvent.type = "clear" =>
        \A s \in SocketIds :
            emitted[s] = IF s \in connected
                         THEN <<[event |-> "clear", userId |-> lastEvent.socket]>>
                         ELSE <<>>

\* a clear of an already empty log has reached both connected sockets
C10_Witness ==
    /\ lastEvent.type = "clear"
    /\ lastEvent.preLen = 0
    /\ connected = {1, 2}
    /\ Sent(1, "clear") # <<>>
    /\ Sent(2, "clear") # <<>>

\* the log-event messages waiting in the queue of socket s, oldest first
LogQueue(s) == SelectSeq(channel[s], LAMBDA x : x.msg.event \in LogEvents)

\* C11: a log-event message is put on the queues by the step that applies its
\* mutation, after it (the log already shows the mutation and the message
\* carries its commit number), and in every socket's queue the log-event
\* messages stand in commit order, so a socket that gets the messages of two
\* events gets them in the order in which the mutations were applied.
C11_BroadcastInCommitOrder ==
    /\ \A s \in SocketIds :
         /\ \A i, j \in 1..Len(LogQueue(s)) : i < j => LogQueue(s)[i].seq < LogQueue(s)[j].seq
         /\ \A i \in 1..Len(LogQueue(s)) : LogQueue(s)[i].seq \in 1..commits
    /\ \A s \in SocketIds, e \in LogEvents :
         Sent(s, e) # <<>> =>
            /\ lastEvent.type = e
            /\ Mutating(lastEvent)
            /\ channel[s][Len(channel[s])] = [msg |-> emitted[s][1], seq |-> commits]
            /\ CASE e = "draw"  -> /\ Len(Log.operations) = lastEvent.preIndex + 2
                                   /\ Log.operations[Len(Log.operations)].timestamp
                                        = emitted[s][1].timestamp
                                   /\ Log.operations[Len(Log.operations)].userId
                                        = emitted[s][1].userId
                 [] e = "undo"  -> Log.currentIndex = lastEvent.preIndex - 1
                 [] e = "redo"  -> Log.currentIndex = lastEvent.preIndex + 1
                 [] e = "clear" -> Log = EmptyLog

\* socket 2 has the messages of two events from different sockets waiting:
\* a draw by socket 1, applied first, then its own undo
C11_Witness ==
    /\ Len(LogQueue(2)) = 2
    /\ LogQueue(2)[1].msg.event = "draw"
    /\ LogQueue(2)[1].msg.userId = 1
    /\ LogQueue(2)[2].msg.event = "undo"
    /\ LogQueue(2)[2].msg.userId = 2

\* C12: any two operations stored at different places of a room's log have
\* different ids, also when one socket's two draws are handled while
\* Date.now() returns the same value.
C12_UniqueIds ==
    \A r \in DOMAIN stateManager :
        \A i, j \in 1..Len(stateManager[r].operations) :
            i # j => stateManager[r].operations[i].id # stateManager[r].operations[j].id

\* C13: a draw whose payload is missing, or has no pathData, or has no
\* pathData.points, is discarded: the log is as it was, nothing is sent to
\* anyone, and the server goes on handling the events of the other sockets.
C13_MalformedDrawDiscarded ==
    [][(lastEvent'.type = "draw" /\ ~WellFormedDraw(lastEvent'.data)) =>
         /\ stateManager' = stateManager
         /\ emitted' = NoMessages
         /\ running']_vars

\* C14: a cursor-move step leaves every room's log, the membership and the
\* clock as they were, whatever the log holds; with a position in the payload
\* all it does is send one cursor-move message to each other socket in the room.
C14_CursorMoveNotLogged ==
    [][lastEvent'.type = "cursor-move" =>
         /\ stateManager' = stateManager
         /\ roomManager' = roomManager
         /\ connected' = connected
         /\ now' = now
         /\ lastEvent'.data.tag = "object" =>
              /\ running'
              /\ \A s \in SocketIds :
                   emitted'[s] = IF s \in connected /\ s # lastEvent'.socket
                                 THEN <<[event    |-> "cursor-move",
                                         userId   |-> lastEvent'.socket,
                                         position |-> lastEvent'.data.position]>>
                                 ELSE <<>>]_vars

\* a cursor has moved while the log held a visible operation and a redo tail
C14_Witness ==
    /\ lastEvent.type = "cursor-move"
    /\ lastEvent.data.tag = "object"
    /\ connected = {1, 2}
    /\ Len(Log.operations) = 2
    /\ Log.currentIndex = 0
    /\ Len(Sent(3 - lastEvent.socket, "cursor-move")) = 1

\* C15: addUser of a user already in the room leaves every member list as it
\* was (contents, order, count) and addUser raises the count by one
\* otherwise; removeUser of a user that is not in the room, or from a room
\* that does not exist, leaves every member list as it was.
C15_MembershipIdempotent ==
    [][LET call == lastEvent'
           was == getUserIndex(roomManager, call.room, call.socket) >= 0
       IN  /\ (call.type = "addUser" /\ was) => roomManager' = roomManager
           /\ (call.type = "addUser" /\ ~was) =>
                getUserCount(roomManager', call.room) = getUserCount(roomManager, call.room) + 1
           /\ call.type = "addUser" =>
                Cardinality({i \in 1..getUserCount(roomManager', call.room) :
                               getUsers(roomManager', call.room)[i] = call.socket}) = 1
           /\ (call.type = "removeUser" /\ ~was) => roomManager' = roomManager]_vars

\* a user has been added to a room of which it was the only member
C15_Witness ==
    /\ lastEvent.type = "addUser"
    /\ lastEvent.wasMember
    /\ getUsers(roomManager, lastEvent.room) = <<lastEvent.socket>>

\* C16: across addUser and removeUser calls the index of a user that stays a
\* member is unchanged by any join and by the removal of a later member and
\* drops by exactly one when an earlier member is removed; a new member goes
\* to the end, so the list is in join order.
C16_IndexStable ==
    [][LET call == lastEvent'
           at == getUserIndex(roomManager, call.room, call.socket)
       IN  /\ \A r \in RoomIds, y \in UserIds :
                (getUserIndex(roomManager, r, y) >= 0 /\ getUserIndex(roomManager', r, y) >= 0) =>
                   getUserIndex(roomManager', r, y) =
                      IF /\ call.type = "removeUser"
                         /\ call.room = r
                         /\ at >= 0
                         /\ at < getUserIndex(roomManager, r, y)
                      THEN getUserIndex(roomManager, r, y) - 1
                      ELSE getUserIndex(roomManager, r, y)
           /\ (call.type = "addUser" /\ at < 0) =>
                getUsers(roomManager', call.room) = Append(getUsers(roomManager, call.room), call.socket)
           /\ \A r \in RoomIds, y \in UserIds :
                (getUserIndex(roomManager, r, y) >= 0 /\ ~(call.room = r /\ call.socket = y)) =>
                   getUserIndex(roomManager', r, y) >= 0]_vars

\* the first of three members has been removed: the two others moved down
C16_Witness ==
    /\ lastEvent.type = "removeUser"
    /\ lastEvent.wasMember
    /\ lastEvent.preIndex = 0
    /\ getUserCount(roomManager, lastEvent.room) = 2

\* the colour and the label the claim derives from a member index
PaletteColor(index) == USER_COLORS[(index % 7) + 1]
UserLabel(index) == <<"User", index + 1>>

\* what a connection step sent, against the member list at that moment;
\* selfIsYou: the joiner's own init-state entry is expected to be named "You"
RosterSent(selfIsYou) ==
    lastEvent.type = "connection" =>
        LET joiner == lastEvent.socket
            users == getUsers(roomManager, roomId)
            init == Sent(joiner, "init-state")[1]
            index == getUserIndex(roomManager, roomId, joiner)
        IN  /\ Len(init.users) = Len(users)
            /\ \A i \in 1..Len(users) :
                 /\ init.users[i].userId = users[i]
                 /\ init.users[i].color = PaletteColor(i - 1)
                 /\ init.users[i].name = IF selfIsYou /\ users[i] = joiner
                                         THEN <<"You">>
                                         ELSE UserLabel(i - 1)
            /\ \A s \in connected \ {joiner} :
                 emitted[s] = <<[event |-> "user-joined", userId |-> joiner,
                                 color |-> PaletteColor(index), name |-> UserLabel(index)]>>

\* C17 as claimed: every roster entry sent on a connection (each element of
\* init-state.users and the user-joined notice) carries the palette colour of
\* the member's index mod 7 and the name "User {index+1}", the entry of the
\* joining socket included.
C17_RosterByIndex ==
    /\ RosterSent(FALSE)
    /\ \A index \in 0..MaxIndex : getUserColor(index) = PaletteColor(index)

\* C17 as amended: the same, except that the init-state entry that describes
\* the joining socket itself carries the name "You".
C17_RosterByIndexExceptYou ==
    /\ RosterSent(TRUE)
    /\ \A index \in 0..MaxIndex : getUserColor(index) = PaletteColor(index)

\* socket 2 has joined socket 1: its init-state lists both and socket 1 is told
C17_Witness ==
    /\ lastEvent.type = "connection"
    /\ lastEvent.socket = 2
    /\ connected = {1, 2}
    /\ Len(Sent(2, "init-state")[1].users) = 2
    /\ Sent(2, "init-state")[1].users[1].name = <<"User", 1>>
    /\ Sent(2, "init-state")[1].users[2].name = <<"You">>
    /\ Len(Sent(1, "user-joined")) = 1

\* C18: with at most 7 sockets connected, the colours a connected socket has
\* been told (by init-state and user-joined) for two different sockets that
\* are connected now are different.
C18_UniqueColors ==
    Cardinality(connected) <= 7 =>
        \A s \in connected :
            \A u, v \in connected :
                (u # v /\ told[s][u] # "none" /\ told[s][v] # "none") => told[s][u] # told[s][v]

\* what a browser shows: its history up to its cursor
ClientVisible(c) == SubSeq(c.operations, 1, c.currentIndex + 1)

\* the server's visible operations as a browser keeps them
ServerVisible ==
    [i \in 1..Len(Visible(Log)) |-> Shown(Visible(Log)[i].userId, Visible(Log)[i].data)]

\* nothing is waiting in the queue of any connected socket
Quiescent == \A s \in connected : channel[s] = <<>>

\* C19: while the server runs, once every queued message has been delivered,
\* the visible operation sequence of every connected browser equals the
\* visible prefix of the server's log.
C19_ClientsAgree ==
    (running /\ Quiescent) => \A s \in connected : ClientVisible(client[s]) = ServerVisible

\* the step handles a disconnect of a socket that is not a member
IsStrayLeave ==
    /\ lastEvent'.type = "disconnect"
    /\ getUserIndex(roomManager, roomId, lastEvent'.socket) < 0

\* the step handles a disconnect of the socket whose disconnect was handled
\* by the step before
IsSecondLeave ==
    /\ lastEvent.type = "disconnect"
    /\ lastEvent'.type = "disconnect"
    /\ lastEvent'.socket = lastEvent.socket

\* C20: a disconnect handled for a socket that is not a member leaves the
\* membership of every room as it was and leaves the log of a room that has
\* members as it was; a second leave right after a first leaves membership,
\* connections and logs exactly as the first left them.
C20_LeaveIdempotent ==
    [][/\ IsStrayLeave =>
            /\ roomManager' = roomManager
            /\ (getUserCount(roomManager, roomId) > 0 => stateManager' = stateManager)
       /\ IsSecondLeave =>
            /\ roomManager' = roomManager
            /\ connected' = connected
            /\ stateManager' = stateManager]_vars

\* a disconnect has been handled for a socket id that never joined, while
\* the room has a member and a non-empty log
C20_Witness ==
    /\ lastEvent.type = "disconnect"
    /\ lastEvent.socket >= nextSocket
    /\ getUserCount(roomManager, roomId) > 0
    /\ roomId \in DOMAIN stateManager
    /\ Len(stateManager[roomId].operations) > 0

\* the messages queued for socket s that announce the join of socket u
JoinedNotices(s, u) ==
    SelectSeq(channel[s], LAMBDA x : x.msg.event = "user-joined" /\ x.msg.userId = u)

\* the user ids of a roster, in the order sent
RosterIds(users) == [i \in 1..Len(users) |-> users[i].userId]

\* C21: every connected socket has exactly one init-state in what was sent to
\* it, and it is the first message; the roster of that init-state is the
\* member list at the join, in join order, the joiner included (alone in the
\* room: operations = [] and users = [joiner]); every member that was there
\* gets exactly one user-joined for each later joiner, and nobody gets a
\* user-joined about itself or about a socket that joined before it.
C21_JoinProtocol ==
    /\ \A s \in connected :
         /\ Len(channel[s]) >= 1
         /\ channel[s][1].msg.event = "init-state"
         /\ Len(SelectSeq(channel[s], LAMBDA x : x.msg.event = "init-state")) = 1
         /\ \E i \in 1..Len(channel[s][1].msg.users) : channel[s][1].msg.users[i].userId = s
         /\ \A i, j \in 1..Len(channel[s][1].msg.users) :
              i < j => channel[s][1].msg.users[i].userId < channel[s][1].msg.users[j].userId
         /\ \A u \in connected :
              Len(JoinedNotices(s, u)) = IF u > s THEN 1 ELSE 0
    /\ lastEvent.type = "connection" =>
         LET joiner == lastEvent.socket
             init == channel[joiner][1].msg
         IN  /\ channel[joiner] = <<[msg |-> init, seq |-> commits]>>
             /\ RosterIds(init.users) = getUsers(roomManager, roomId)
             /\ {init.users[i].userId : i \in 1..Len(init.users)} = connected
             /\ init.users[Len(init.users)].userId = joiner
             /\ (connected = {joiner} => init.operations = <<>> /\ RosterIds(init.users) = <<joiner>>)
             /\ \A s \in connected \ {joiner} :
                  /\ Len(Of(emitted[s], "user-joined")) = 1
                  /\ channel[s][Len(channel[s])].msg.event = "user-joined"
                  /\ channel[s][Len(channel[s])].msg.userId = joiner

\* socket 2 has just joined socket 1, which had drawn: socket 2's queue is its
\* init-state alone, socket 1's queue starts with its own init-state and ends
\* with the notice about socket 2
C21_Witness ==
    /\ lastEvent.type = "connection"
    /\ lastEvent.socket = 2
    /\ connected = {1, 2}
    /\ Len(channel[2]) = 1
    /\ Len(channel[2][1].msg.operations) = 1
    /\ RosterIds(channel[2][1].msg.users) = <<1, 2>>
    /\ channel[1][1].msg.event = "init-state"
    /\ Len(JoinedNotices(1, 2)) = 1

\* the log the handler of the event just handled found when it was entered
LogBefore(userId) == initRoom(pending[userId].before, roomId)[roomId]

\* C22: a draw handler leaves the log as addOperation makes it from the log
\* it found when it was entered, the visible prefix one operation longer with
\* the new operation last, so n draws in a row grow it by n in handling
\* order; a clear handler leaves the log as clear makes it from the log it
\* found; and the snapshot a connection takes has operations and currentIndex
\* of one moment: as many operations as currentIndex + 1, the ones sent in
\* init-state, and no handler between two of its statements.
C22_HandlersAtomic ==
    [][/\ lastEvent'.type = "draw" =>
            /\ stateManager' =
                 addOperation(pending[lastEvent'.socket].before, roomId,
                              pending[lastEvent'.socket].operation).rooms
            /\ Visible(Log') = Append(Visible(LogBefore(lastEvent'.socket)),
                                      pending[lastEvent'.socket].operation)
       /\ lastEvent'.type = "clear" =>
            stateManager' = clear(pending[lastEvent'.socket].before, roomId)
       /\ lastEvent'.type = "connection" =>
            /\ Len(getState(stateManager, roomId).result.operations)
                 = getState(stateManager, roomId).result.currentIndex + 1
            /\ Of(emitted'[lastEvent'.socket], "init-state")[1].operations
                 = getState(stateManager, roomId).result.operations
            /\ Log.currentIndex <= Len(Log.operations) - 1
            /\ roomManager' = addUser(roomManager, roomId, lastEvent'.socket)
       /\ lastEvent'.type = "disconnect" =>
            roomManager' = removeUser(roomManager, roomId, lastEvent'.socket)]_vars

\* two draw events of different sockets have been handled one after the
\* other and the visible prefix holds both, in handling order
C22_Witness ==
    /\ lastEvent.type = "draw"
    /\ lastEvent.socket = 2
    /\ CallStackEmpty
    /\ Len(Visible(Log)) = 2
    /\ Visible(Log)[1].userId = 1
    /\ Visible(Log)[2].userId = 2

\* undo called k times in a row on `room`: the Map after the calls and how
\* many of them reported success
RECURSIVE undoTimes(_, _, _)
undoTimes(rooms, room, k) ==
    IF k = 0
    THEN [rooms |-> rooms, successes |-> 0]
    ELSE LET called == undo(rooms, room)
             others == undoTimes(called.rooms, room, k - 1)
         IN  [rooms     |-> others.rooms,
              successes |-> others.successes + (IF called.result.success THEN 1 ELSE 0)]

\* redo called k times in a row on `room`
RECURSIVE redoTimes(_, _, _)
redoTimes(rooms, room, k) ==
    IF k = 0
    THEN [rooms |-> rooms, successes |-> 0]
    ELSE LET called == redo(rooms, room)
             others == redoTimes(called.rooms, room, k - 1)
         IN  [rooms     |-> others.rooms,
              successes |-> others.successes + (IF called.result.success THEN 1 ELSE 0)]

\* C23: on every log the server reaches, for every k from 1 to
\* currentIndex + 1, k undos succeed and k redos after them succeed and give
\* back exactly the same operations and currentIndex (k = 1: undo then redo);
\* and where the redo tail is not empty, redo then undo both succeed and give
\* back exactly the same operations and currentIndex.
C23_UndoRedoInverse ==
    /\ \A k \in 1..(Log.currentIndex + 1) :
         /\ undoTimes(stateManager, roomId, k).successes = k
         /\ undoTimes(stateManager, roomId, k).rooms[roomId].currentIndex = Log.currentIndex - k
         /\ redoTimes(undoTimes(stateManager, roomId, k).rooms, roomId, k).successes = k
         /\ redoTimes(undoTimes(stateManager, roomId, k).rooms, roomId, k).rooms = stateManager
    /\ Log.currentIndex < Len(Log.operations) - 1 =>
         /\ redo(stateManager, roomId).result.success
         /\ redo(stateManager, roomId).rooms[roomId].currentIndex = Log.currentIndex + 1
         /\ undo(redo(stateManager, roomId).rooms, roomId).result.success
         /\ undo(redo(stateManager, roomId).rooms, roomId).rooms = stateManager

\* a redo has just succeeded on a log of two operations of which one had been
\* undone: the log is whole again, and two undos and two redos apply to it
C23_Witness ==
    /\ lastEvent.type = "redo"
    /\ lastEvent.success
    /\ lastEvent.preIndex = 0
    /\ Len(Log.operations) = 2
    /\ Log.currentIndex = 1

\* the log of a room as stored: nothing for a room the Map does not hold
Stored(rooms, room) == IF room \in DOMAIN rooms THEN <<rooms[room]>> ELSE <<>>

\* C24: a call of addOperation, getState, undo, redo, clear, clearRoom,
\* addUser or removeUser on one room leaves the stored log (operations and
\* currentIndex) and the member list of every other room as they were, and
\* after it the snapshot of every room holds only operations that were
\* appended to that room.
C24_RoomsIsolated ==
    [][/\ \A other \in RoomIds \ {lastEvent'.room} :
            /\ Stored(stateManager', other) = Stored(stateManager, other)
            /\ getUsers(roomManager', other) = getUsers(roomManager, other)
            /\ (other \in DOMAIN roomManager') = (other \in DOMAIN roomManager)
       /\ \A room \in RoomIds :
            \A i \in 1..Len(getState(stateManager', room).result.operations) :
                getState(stateManager', room).result.operations[i].id[1] = room]_vars

\* clearRoom has just deleted the log of one room while the other room holds
\* two operations of its own and has a member
C24_Witness ==
    /\ lastEvent.type = "clearRoom"
    /\ lastEvent.room = roomId
    /\ roomId \notin DOMAIN stateManager
    /\ "studio" \in DOMAIN stateManager
    /\ Len(getState(stateManager, "studio").result.operations) = 2
    /\ getUserCount(roomManager, "studio") > 0
    /\ getUserCount(roomManager, roomId) > 0
====
